---- MODULE Spec2Model ----
(***************************************************************************)
(* Model of src/cad/tap_handle.py: the TapHandleSpec record, the builder   *)
(* make_tap_handle (a fixed sequence of kernel calls) and the __main__     *)
(* block that builds one model and exports it.                             *)
(*                                                                         *)
(* Lengths are fixed-point integers, 1 unit = 0.01 mm, so that the 0.01,   *)
(* 0.1 and 0.2 offsets of the source are 1, 10 and 20.  Radii are carried  *)
(* doubled (as diameters) where the source halves a diameter, and the      *)
(* irrational factors (sqrt 2 of the square socket, sqrt 3 of the hexagon) *)
(* are compared in squared form.                                           *)
(*                                                                         *)
(* The geometry kernel (build123d) is not part of the repository.  A       *)
(* solid is modelled by its construction: the primitives united, the       *)
(* cutters subtracted in order, and the fillets applied.  What only the    *)
(* kernel decides -- the edges of the combined solid, whether a call       *)
(* raises, the Python type of a result -- is a nondeterministic choice.    *)
(***************************************************************************)
EXTENDS Integers, Sequences, FiniteSets, TLC

VARIABLES
    caller,             \* "main": run as a program; "direct": make_tap_handle called with a spec
    pc,                 \* position in the __main__ block / the direct call
    ip,                 \* index into Program while make_tap_handle runs, else 0
    spec,               \* the TapHandleSpec in use, NoSpec before construction
    handle_part,        \* local handle_part of make_tap_handle
    shaft_part,         \* local shaft_part
    p,                  \* local p
    p_edges,            \* p.edges(): centroids of the edges of the combined solid
    intersection_edges, \* local intersection_edges
    result,             \* value returned by make_tap_handle, NoPart if none
    parts,              \* the dict parts of __main__: name -> type of the value
    error,              \* the exception that ended the run, NoError if none
    dir,                \* the build directory: "absent", "dir", or "file" (a non-directory)
    files,              \* names of the files written into the build directory
    log,                \* loguru messages
    trace               \* the calls made so far, in order

vars == <<caller, pc, ip, spec, handle_part, shaft_part, p, p_edges,
          intersection_edges, result, parts, error, dir, files, log, trace>>

----------------------------------------------------------------------------
(* Bounds of the model *)

\* at most this many edges of the combined solid are enumerated
MaxEdges == 2

----------------------------------------------------------------------------
(* TapHandleSpec, lines 10-42 *)

DefaultSpec ==
    [ shaft_od              |-> 1250,
      shaft_length          |-> 14000,
      shaft_hex_length      |-> 1000,
      tap_diameter          |-> 300,
      tap_square_length     |-> 1000,
      tap_round_length      |-> 200,
      handle_base_diameter  |-> 3000,
      handle_t_width        |-> 1500,
      handle_t_length       |-> 12000,
      handle_t_length_2     |-> 6000,
      handle_t_height       |-> 1000 ]

NoSpec == [none |-> TRUE]

\* The dataclass constructor: keyword arguments override the defaults.
TapHandleSpec(kwargs) ==
    [f \in DOMAIN DefaultSpec |->
        IF f \in DOMAIN kwargs THEN kwargs[f] ELSE DefaultSpec[f]]

\* tap_square_side_length = tap_diameter / 2**0.5, carried as twice its
\* square: 2 * side^2 = tap_diameter^2.
TapSquareSideSq2(s) == s.tap_diameter * s.tap_diameter

\* The keyword arguments __main__ passes.
MainKwargs == [tap_diameter |-> 300]

\* Keyword arguments of a direct call of the builder: dimensions around the
\* defaults, including degenerate but positive ones.
DimensionKwargs ==
    [ handle_t_height      : {5, 10, 11, 1000, 5000},
      handle_t_width       : {1500, 13000},
      shaft_od             : {250, 1250},
      handle_base_diameter : {480, 3000} ]

SocketKwargs ==
    [ tap_diameter      : {300, 1000, 2000},
      tap_square_length : {1, 1000, 20000},
      tap_round_length  : {1, 200},
      shaft_length      : {1500, 14000},
      shaft_od          : {250, 1250},
      handle_t_height   : {5, 1000} ]

DirectKwargs == DimensionKwargs \cup SocketKwargs

----------------------------------------------------------------------------
(* Kernel primitives: a primitive is a centred shape with a Z range.       *)
(*   kind "cyl": dx = dy = diameter                                        *)
(*   kind "box": dx, dy = the side lengths                                 *)
(*   kind "hex": dx = diameter of the circumscribed circle, a vertex on +X *)
(*   kind "sq":  a square box; dx = dy = 2 * side^2 (the side of the socket *)
(*               is tap_diameter / sqrt 2, so the side itself is irrational)*)

ANCHOR_TOP == "top"
ANCHOR_BOTTOM == "bottom"

ZRange(height, align) ==
    IF align = ANCHOR_TOP THEN <<0 - height, 0>> ELSE <<0, height>>

\* bd.Cylinder(radius=diameter/2, height, align)
Cylinder(diameter, height, align) ==
    [kind |-> "cyl", dx |-> diameter, dy |-> diameter,
     z0 |-> ZRange(height, align)[1], z1 |-> ZRange(height, align)[2]]

\* bd.Box(length, width, height, align)
Box(length, width, height, align) ==
    [kind |-> "box", dx |-> length, dy |-> width,
     z0 |-> ZRange(height, align)[1], z1 |-> ZRange(height, align)[2]]

\* bd.Box(side, side, height, align), given 2 * side^2
SquareBox(sideSq2, height, align) ==
    [kind |-> "sq", dx |-> sideSq2, dy |-> sideSq2,
     z0 |-> ZRange(height, align)[1], z1 |-> ZRange(height, align)[2]]

\* bd.extrude(bd.RegularPolygon(radius=diameter/2, side_count=6), amount)
HexPrism(diameter, amount) ==
    [kind |-> "hex", dx |-> diameter, dy |-> diameter,
     z0 |-> 0, z1 |-> amount]

\* bd.Pos(Z=dz) * primitive
PosPrim(dz, prim) == [prim EXCEPT !.z0 = @ + dz, !.z1 = @ + dz]

(* A part: the primitives united, the cutters subtracted (in order), and   *)
(* the fillets applied (radius and edge set, in order).                    *)
EmptyPart == [solids |-> {}, cuts |-> <<>>, fillets |-> <<>>]
NoPart == [none |-> TRUE]

\* part += primitive
Add(part, prim) == [part EXCEPT !.solids = @ \cup {prim}]

\* part -= primitive
Subtract(part, prim) == [part EXCEPT !.cuts = Append(@, prim)]

\* part + part
Union(a, b) ==
    [solids  |-> a.solids \cup b.solids,
     cuts    |-> a.cuts \o b.cuts,
     fillets |-> a.fillets \o b.fillets]

\* bd.fillet(edges, radius) / part.fillet(edge_list, radius)
Fillet(part, edge_list, radius) ==
    [part EXCEPT !.fillets = Append(@, [radius |-> radius, edges |-> edge_list])]

\* bd.Pos(Z=dz) * part
Pos(dz, part) ==
    [part EXCEPT !.solids = {PosPrim(dz, s) : s \in @},
                 !.cuts = [i \in DOMAIN @ |-> PosPrim(dz, @[i])]]

----------------------------------------------------------------------------
(* What the kernel reports of a part built this way.                       *)

SetMin(S) == CHOOSE x \in S : \A y \in S : x <= y
SetMax(S) == CHOOSE x \in S : \A y \in S : x >= y
Max2(a, b) == IF a >= b THEN a ELSE b

\* Bounding box of a union of primitives.  A fillet rounds an edge inside
\* the box of what it is applied to and a subtraction removes material, so
\* neither extends it.
ZMin(part) == SetMin({s.z0 : s \in part.solids})
ZMax(part) == SetMax({s.z1 : s \in part.solids})
BBoxHeight(part) == ZMax(part) - ZMin(part)

\* X extent of a primitive: diameter, length, or vertex-to-vertex width.
XExtent(s) == s.dx

\* Y extent of a primitive is at most m.  The hexagon, with its vertices on
\* the X axis, is dx * sqrt(3) / 2 wide in Y: compared in squared form.
YExtentAtMost(s, m) ==
    IF s.kind = "hex" THEN 3 * s.dx * s.dx <= 4 * m * m ELSE s.dy <= m

XExtentAtMostOf(part, m) == \A s \in part.solids : XExtent(s) <= m
YExtentAtMostOf(part, m) == \A s \in part.solids : YExtentAtMost(s, m)

(* Whether subtracting a cutter removes material, i.e. strictly reduces    *)
(* the volume.  Every primitive is convex, centred on the Z axis and       *)
(* symmetric in X and in Y.  Material is removed iff in some Z slab that   *)
(* the cutter and a united primitive m share, a point of cutter /\ m lies  *)
(* outside the cutters already subtracted there.  The slabs tested are the *)
(* unit slabs [b, b+1] above each Z breakpoint b (between two breakpoints *)
(* nothing changes, and a breakpoint is a whole number of units).         *)

InSlab(s, b) == s.z0 <= b /\ b + 1 <= s.z1

Breaks(part, cutter) ==
    LET all == part.solids \cup {part.cuts[i] : i \in DOMAIN part.cuts} \cup {cutter}
    IN  {s.z0 : s \in all} \cup {s.z1 : s \in all}

\* 2 * (extent along X)^2 and the same along Y; for the square box this is
\* the 2 * side^2 it carries.
AxisX2(s) == IF s.kind = "sq" THEN s.dx ELSE 2 * s.dx * s.dx
AxisY2(s) ==
    CASE s.kind = "sq"  -> s.dy
      [] s.kind = "hex" -> (3 * s.dx * s.dx) \div 2
      [] OTHER          -> 2 * s.dy * s.dy

\* (2 * circumradius)^2: the squared diagonal, or the squared diameter
Circum2(s) ==
    CASE s.kind = "box" -> s.dx * s.dx + s.dy * s.dy
      [] s.kind = "sq"  -> s.dx
      [] OTHER          -> s.dx * s.dx

Min2(a, b) == IF a <= b THEN a ELSE b

\* A point of cutter /\ m lies outside the cuts active in the slab.  A
\* square cut and a round cut active together are the socket and the bore
\* of one tap_diameter: the square is inscribed in the bore.
OutsideCuts(cutter, m, active) ==
    LET round  == {c \in active : c.kind = "cyl"}
        square == {c \in active : c.kind = "sq"}
    IN  IF round # {}
        THEN \A c \in round :
                Min2(Circum2(cutter), Circum2(m)) > Circum2(c)
        ELSE \A c \in square :
                \/ Min2(AxisX2(cutter), AxisX2(m)) > AxisX2(c)
                \/ Min2(AxisY2(cutter), AxisY2(m)) > AxisY2(c)

VolumeReducedBy(part, cutter) ==
    \E b \in Breaks(part, cutter) :
        /\ InSlab(cutter, b)
        /\ \E m \in part.solids :
              /\ InSlab(m, b)
              /\ OutsideCuts(cutter, m,
                    {part.cuts[i] : i \in {j \in DOMAIN part.cuts : InSlab(part.cuts[j], b)}})

\* The part as it was before its i-th subtraction.
BeforeCut(part, i) == [part EXCEPT !.cuts = SubSeq(@, 1, i - 1)]

----------------------------------------------------------------------------
(* Program constants of make_tap_handle *)

HandleFilletRadius == 450
HandleShiftZ == 10
HexOverlap == 1
EdgeZTolerance == 20
\* the "- 1" and "+ 1" of the squared-radius band, in units^2
BandTolerance == 10000
JunctionFilletRadius == 350
BoltClearance == 10
BoltDiameter == 490
BoltLength == 5000

\* handle_part.edges(): every edge of the handle
AllEdges == "all"

----------------------------------------------------------------------------
(* p.edges() of the combined solid: the kernel's edge decomposition.  An   *)
(* edge is known to the builder by its centroid only.                      *)

Centroid(x, y, z) == [X |-> x, Y |-> y, Z |-> z]

CandidateEdges ==
    { Centroid(700, 0, 0),      \* in the band of the default spec, on Z = 0
      Centroid(75, 0, 0),       \* on the inner bound when shaft_od = 250
      Centroid(76, 0, 10),      \* just inside it
      Centroid(1500, 100, 0),   \* on the outer bound when handle_base_diameter = 3000
      Centroid(1500, 99, 19),   \* just inside it, and just inside |Z| < 0.2
      Centroid(700, 0, 20),     \* on the Z bound
      Centroid(0, -700, -20),   \* on the negative Z bound
      Centroid(0, 700, -19) }

EdgeSets == {E \in SUBSET CandidateEdges : Cardinality(E) <= MaxEdges}

\* The selection with the radial bounds taken non-strictly.
IsIntersectionEdgeInclusive(s, edge) ==
    /\ (IF edge.Z < 0 THEN 0 - edge.Z ELSE edge.Z) < EdgeZTolerance
    /\ s.shaft_od * s.shaft_od - 4 * BandTolerance
          <= 4 * (edge.X * edge.X + edge.Y * edge.Y)
    /\ s.handle_base_diameter * s.handle_base_diameter + 4 * BandTolerance
          >= 4 * (edge.X * edge.X + edge.Y * edge.Y)

\* The condition of the list comprehension, lines 98-106.  The radii of the
\* source are halved diameters, so both sides are multiplied by 4.
IsIntersectionEdge(s, edge) ==
    /\ (IF edge.Z < 0 THEN 0 - edge.Z ELSE edge.Z) < EdgeZTolerance
    /\ s.shaft_od * s.shaft_od - 4 * BandTolerance
          < 4 * (edge.X * edge.X + edge.Y * edge.Y)
    /\ s.handle_base_diameter * s.handle_base_diameter + 4 * BandTolerance
          > 4 * (edge.X * edge.X + edge.Y * edge.Y)

\* The assertion left out.
AssertNothing(edge_list) == TRUE

\* assert len(intersection_edges) > 0
AssertNonEmpty(edge_list) == Cardinality(edge_list) > 0

----------------------------------------------------------------------------
(* The geometry make_tap_handle builds from a spec s *)

\* lines 49-53
HandleBase(s) == Cylinder(s.handle_base_diameter, s.handle_t_height, ANCHOR_TOP)
\* The T-bar built twice as long (the length taken for a half length).
HandleTBarDoubled(s) ==
    Box(2 * s.handle_t_length, s.handle_t_width, s.handle_t_height, ANCHOR_TOP)
\* lines 54-59
HandleTBar(s) == Box(s.handle_t_length, s.handle_t_width, s.handle_t_height, ANCHOR_TOP)
\* lines 60-65
HandleCrossBar(s) == Box(s.handle_t_width, s.handle_t_length_2, s.handle_t_height, ANCHOR_TOP)
\* lines 72-76
ShaftCylinder(s) == Cylinder(s.shaft_od, s.shaft_length - s.shaft_hex_length, ANCHOR_BOTTOM)
\* lines 79-87
ShaftHex(s) ==
    PosPrim(s.shaft_length - s.shaft_hex_length - HexOverlap,
            HexPrism(s.shaft_od, s.shaft_hex_length))
\* The socket anchored at its bottom face: it rises from the shaft's top.
SocketCutterBottomAnchored(s) ==
    PosPrim(s.shaft_length, SquareBox(TapSquareSideSq2(s), s.tap_square_length, ANCHOR_BOTTOM))
\* lines 117-122
SocketCutter(s) ==
    PosPrim(s.shaft_length, SquareBox(TapSquareSideSq2(s), s.tap_square_length, ANCHOR_TOP))
\* lines 123-127
BoreCutter(s) ==
    PosPrim(s.shaft_length, Cylinder(s.tap_diameter, s.tap_round_length, ANCHOR_TOP))
\* The bolt hole started at the unshifted handle bottom plus the clearance.
BoltCutterRaised(s) ==
    PosPrim(0 - s.handle_t_height + BoltClearance,
            Cylinder(BoltDiameter, BoltLength, ANCHOR_BOTTOM))
\* lines 130-134
BoltCutter(s) ==
    PosPrim(0 - s.handle_t_height - BoltClearance,
            Cylinder(BoltDiameter, BoltLength, ANCHOR_BOTTOM))

\* Program with the socket cut moved ahead of the junction fillet.
ProgramCutBeforeFillet ==
    << "handle_cylinder", "handle_t_bar", "handle_cross_bar", "handle_fillet",
       "shaft_cylinder", "shaft_hex", "combine", "select_edges",
       "cut_socket", "junction_fillet", "cut_bore", "cut_bolt", "return" >>

\* The statements of make_tap_handle, in program order.
Program ==
    << "handle_cylinder", "handle_t_bar", "handle_cross_bar", "handle_fillet",
       "shaft_cylinder", "shaft_hex", "combine", "select_edges",
       "junction_fillet", "cut_socket", "cut_bore", "cut_bolt", "return" >>

AtStep(label) == pc = "build" /\ ip \in DOMAIN Program /\ Program[ip] = label

----------------------------------------------------------------------------
(* The __main__ block *)

NoError == <<>>

PartName == "tap_handle_m3"

\* The type check accepting anything.
IsAnyType(t) == TRUE

\* isinstance(part, bd.Part | bd.Solid | bd.Compound)
IsExpectedType(t) == t \in {"Part", "Solid", "Compound"}

\* What show(...) may hand back: build123d_ease is outside the repository.
ShownTypes == {"Part", "Solid", "Compound", "NoneType"}

\* mkdir without exist_ok: an existing directory is an error.
MkdirExclusive(d) ==
    CASE d = "absent" -> [dir |-> "dir", error |-> NoError]
      [] OTHER        -> [dir |-> d, error |-> <<"FileExistsError">>]

\* Path.mkdir(exist_ok=True) on the build directory, whose parent exists:
\* the directory afterwards, and the exception raised if any.
Mkdir(d) ==
    CASE d = "absent" -> [dir |-> "dir", error |-> NoError]
      [] d = "dir"    -> [dir |-> "dir", error |-> NoError]
      [] OTHER        -> [dir |-> d, error |-> <<"FileExistsError">>]

\* f"{name}.stl" and f"{name}.step"
StlName(name) == name \o ".stl"
StepName(name) == name \o ".step"

----------------------------------------------------------------------------
Init ==
    /\ caller \in {"main", "direct"}
    /\ pc = "construct"
    /\ ip = 0
    /\ spec = NoSpec
    /\ handle_part = NoPart
    /\ shaft_part = NoPart
    /\ p = NoPart
    /\ p_edges = {}
    /\ intersection_edges = {}
    /\ result = NoPart
    /\ parts = <<>>
    /\ error = NoError
    /\ dir \in (IF caller = "main" THEN {"absent", "dir", "file"} ELSE {"absent"})
    /\ files \in (IF dir = "dir" THEN SUBSET {StlName(PartName), StepName(PartName)} ELSE {{}})
    /\ log = <<>>
    /\ trace = <<>>

Raise(e) ==
    /\ error' = e
    /\ pc' = "raised"
    /\ ip' = 0

\* TapHandleSpec(...), lines 143-145 and 30-34
ConstructSpec ==
    /\ pc = "construct"
    /\ \E kw \in (IF caller = "main" THEN {MainKwargs} ELSE DirectKwargs) :
          /\ spec' = TapHandleSpec(kw)
          /\ log' = Append(log, <<"tap_square_side_length", TapSquareSideSq2(TapHandleSpec(kw))>>)
    /\ pc' = "call"
    /\ trace' = Append(trace, <<"TapHandleSpec">>)
    /\ UNCHANGED <<caller, ip, handle_part, shaft_part, p, p_edges,
                   intersection_edges, result, parts, error, dir, files>>

\* make_tap_handle(spec) is entered
EnterBuilder ==
    /\ pc = "call"
    /\ pc' = "build"
    /\ ip' = 1
    /\ trace' = Append(trace, <<"make_tap_handle">>)
    /\ UNCHANGED <<caller, spec, handle_part, shaft_part, p, p_edges,
                   intersection_edges, result, parts, error, dir, files, log>>

BuilderFrame == <<caller, pc, spec, result, parts, error, dir, files, log>>

\* lines 48-53
HandleCylinderStep ==
    /\ AtStep("handle_cylinder")
    /\ handle_part' = Add(EmptyPart, HandleBase(spec))
    /\ ip' = ip + 1
    /\ trace' = Append(trace, <<"handle_cylinder">>)
    /\ UNCHANGED <<BuilderFrame, shaft_part, p, p_edges, intersection_edges>>

\* lines 54-59
HandleTBarStep ==
    /\ AtStep("handle_t_bar")
    /\ handle_part' = Add(handle_part, HandleTBar(spec))
    /\ ip' = ip + 1
    /\ trace' = Append(trace, <<"handle_t_bar">>)
    /\ UNCHANGED <<BuilderFrame, shaft_part, p, p_edges, intersection_edges>>

\* lines 60-65
HandleCrossBarStep ==
    /\ AtStep("handle_cross_bar")
    /\ handle_part' = Add(handle_part, HandleCrossBar(spec))
    /\ ip' = ip + 1
    /\ trace' = Append(trace, <<"handle_cross_bar">>)
    /\ UNCHANGED <<BuilderFrame, shaft_part, p, p_edges, intersection_edges>>

\* line 66: fillet every edge, then shift the handle up
HandleFilletStep ==
    /\ AtStep("handle_fillet")
    /\ handle_part' = Pos(HandleShiftZ, Fillet(handle_part, AllEdges, HandleFilletRadius))
    /\ ip' = ip + 1
    /\ trace' = trace \o << <<"handle_fillet">>, <<"handle_shift">> >>
    /\ UNCHANGED <<BuilderFrame, shaft_part, p, p_edges, intersection_edges>>

\* lines 69-76
ShaftCylinderStep ==
    /\ AtStep("shaft_cylinder")
    /\ shaft_part' = Add(EmptyPart, ShaftCylinder(spec))
    /\ ip' = ip + 1
    /\ trace' = Append(trace, <<"shaft_cylinder">>)
    /\ UNCHANGED <<BuilderFrame, handle_part, p, p_edges, intersection_edges>>

\* lines 79-87
ShaftHexStep ==
    /\ AtStep("shaft_hex")
    /\ shaft_part' = Add(shaft_part, ShaftHex(spec))
    /\ ip' = ip + 1
    /\ trace' = Append(trace, <<"shaft_hex">>)
    /\ UNCHANGED <<BuilderFrame, handle_part, p, p_edges, intersection_edges>>

\* line 90; the kernel fixes the edges of the combined solid
CombineStep ==
    /\ AtStep("combine")
    /\ p' = Union(Union(EmptyPart, handle_part), shaft_part)
    /\ p_edges' \in EdgeSets
    /\ ip' = ip + 1
    /\ trace' = Append(trace, <<"combine">>)
    /\ UNCHANGED <<BuilderFrame, handle_part, shaft_part, intersection_edges>>

\* lines 95-108: the selection and its assertion
SelectEdgesStep ==
    /\ AtStep("select_edges")
    /\ intersection_edges' = {edge \in p_edges : IsIntersectionEdge(spec, edge)}
    /\ trace' = Append(trace, <<"select_edges">>)
    /\ IF AssertNonEmpty(intersection_edges')
       THEN /\ ip' = ip + 1
            /\ UNCHANGED <<pc, error>>
       ELSE Raise(<<"AssertionError">>)
    /\ UNCHANGED <<caller, spec, result, parts, dir, files, log,
                   handle_part, shaft_part, p, p_edges>>

\* lines 111-114
JunctionFilletStep ==
    /\ AtStep("junction_fillet")
    /\ p' = Fillet(p, intersection_edges, JunctionFilletRadius)
    /\ ip' = ip + 1
    /\ trace' = Append(trace, <<"junction_fillet">>)
    /\ UNCHANGED <<BuilderFrame, handle_part, shaft_part, p_edges, intersection_edges>>

\* lines 117-122
CutSocketStep ==
    /\ AtStep("cut_socket")
    /\ p' = Subtract(p, SocketCutter(spec))
    /\ ip' = ip + 1
    /\ trace' = Append(trace, <<"cut_socket">>)
    /\ UNCHANGED <<BuilderFrame, handle_part, shaft_part, p_edges, intersection_edges>>

\* lines 123-127
CutBoreStep ==
    /\ AtStep("cut_bore")
    /\ p' = Subtract(p, BoreCutter(spec))
    /\ ip' = ip + 1
    /\ trace' = Append(trace, <<"cut_bore">>)
    /\ UNCHANGED <<BuilderFrame, handle_part, shaft_part, p_edges, intersection_edges>>

\* lines 130-134
CutBoltStep ==
    /\ AtStep("cut_bolt")
    /\ p' = Subtract(p, BoltCutter(spec))
    /\ ip' = ip + 1
    /\ trace' = Append(trace, <<"cut_bolt">>)
    /\ UNCHANGED <<BuilderFrame, handle_part, shaft_part, p_edges, intersection_edges>>

\* line 136
ReturnStep ==
    /\ AtStep("return")
    /\ result' = p
    /\ ip' = 0
    /\ pc' = IF caller = "main" THEN "show" ELSE "returned"
    /\ trace' = Append(trace, <<"return">>)
    /\ UNCHANGED <<caller, spec, parts, error, dir, files, log,
                   handle_part, shaft_part, p, p_edges, intersection_edges>>

\* A kernel call (a primitive, a boolean, a fillet, an export) raises; the
\* source catches nothing, so the exception ends the run.
KernelSteps == {Program[i] : i \in DOMAIN Program} \ {"select_edges", "return"}

KernelRaises ==
    /\ \/ \E label \in KernelSteps : AtStep(label)
       \/ pc \in {"stl", "step"}
    /\ Raise(<<"KernelError">>)
    /\ UNCHANGED <<caller, spec, handle_part, shaft_part, p, p_edges,
                   intersection_edges, result, parts, dir, files, log, trace>>

\* line 141: show(...) and the dict entry
Show ==
    /\ pc = "show"
    /\ \E t \in ShownTypes : parts' = << <<PartName, t>> >>
    /\ pc' = "log"
    /\ trace' = Append(trace, <<"show">>)
    /\ UNCHANGED <<caller, ip, spec, handle_part, shaft_part, p, p_edges,
                   intersection_edges, result, error, dir, files, log>>

\* line 150
LogShowing ==
    /\ pc = "log"
    /\ log' = Append(log, <<"Showing CAD model(s)">>)
    /\ pc' = "mkdir"
    /\ UNCHANGED <<caller, ip, spec, handle_part, shaft_part, p, p_edges,
                   intersection_edges, result, parts, error, dir, files, trace>>

\* lines 152-154
MakeDir ==
    /\ pc = "mkdir"
    /\ trace' = Append(trace, <<"mkdir">>)
    /\ dir' = Mkdir(dir).dir
    /\ IF Mkdir(dir).error = NoError
       THEN /\ pc' = "check"
            /\ ip' = 1
            /\ UNCHANGED error
       ELSE Raise(Mkdir(dir).error)
    /\ UNCHANGED <<caller, spec, handle_part, shaft_part, p, p_edges,
                   intersection_edges, result, parts, files, log>>

MainFrame == <<caller, spec, handle_part, shaft_part, p, p_edges,
               intersection_edges, result, parts, dir, log>>

\* lines 155-158: ip is the index of the dict item the loop is at
TypeCheck ==
    /\ pc = "check"
    /\ trace' = Append(trace, <<"isinstance", parts[ip][1]>>)
    /\ IF IsExpectedType(parts[ip][2])
       THEN /\ pc' = "stl"
            /\ UNCHANGED <<ip, error>>
       ELSE Raise(<<"AssertionError", parts[ip][1], parts[ip][2]>>)
    /\ UNCHANGED <<MainFrame, files>>

\* line 162
ExportStl ==
    /\ pc = "stl"
    /\ files' = files \cup {StlName(parts[ip][1])}
    /\ trace' = Append(trace, <<"export_stl", StlName(parts[ip][1])>>)
    /\ pc' = "step"
    /\ UNCHANGED <<MainFrame, ip, error>>

\* line 163, and the end of the loop body
ExportStep ==
    /\ pc = "step"
    /\ files' = files \cup {StepName(parts[ip][1])}
    /\ trace' = Append(trace, <<"export_step", StepName(parts[ip][1])>>)
    /\ IF ip < Len(parts)
       THEN pc' = "check" /\ ip' = ip + 1
       ELSE pc' = "done" /\ ip' = 0
    /\ UNCHANGED <<MainFrame, error>>

Next ==
    \/ ConstructSpec
    \/ EnterBuilder
    \/ HandleCylinderStep
    \/ HandleTBarStep
    \/ HandleCrossBarStep
    \/ HandleFilletStep
    \/ ShaftCylinderStep
    \/ ShaftHexStep
    \/ CombineStep
    \/ SelectEdgesStep
    \/ JunctionFilletStep
    \/ CutSocketStep
    \/ CutBoreStep
    \/ CutBoltStep
    \/ ReturnStep
    \/ KernelRaises
    \/ Show
    \/ LogShowing
    \/ MakeDir
    \/ TypeCheck
    \/ ExportStl
    \/ ExportStep

Spec == Init /\ [][Next]_vars

----------------------------------------------------------------------------
(* Properties *)

Range(seq) == {seq[i] : i \in DOMAIN seq}
Called(op) == \E i \in DOMAIN trace : trace[i][1] = op
IsPrefix(a, b) == Len(a) <= Len(b) /\ SubSeq(b, 1, Len(a)) = a
PositiveDimensions(s) == \A f \in DOMAIN s : s[f] > 0
Returned == result # NoPart

BuilderOps ==
    { "handle_cylinder", "handle_t_bar", "handle_cross_bar", "handle_fillet",
      "handle_shift", "shaft_cylinder", "shaft_hex", "combine", "select_edges",
      "junction_fillet", "cut_socket", "cut_bore", "cut_bolt", "return" }

IsBuilderCall(entry) == entry[1] \in BuilderOps

\* the kernel calls make_tap_handle has made so far
BuilderCalls == SelectSeq(trace, IsBuilderCall)

StrictOrder ==
    << <<"handle_cylinder">>, <<"handle_t_bar">>, <<"handle_cross_bar">>,
       <<"handle_fillet">>, <<"handle_shift">>,
       <<"shaft_cylinder">>, <<"shaft_hex">>,
       <<"combine">>,
       <<"select_edges">>, <<"junction_fillet">>,
       <<"cut_socket">>, <<"cut_bore">>,
       <<"cut_bolt">>, <<"return">> >>

ShiftedHandle(s) ==
    [solids  |-> {PosPrim(HandleShiftZ, HandleBase(s)),
                  PosPrim(HandleShiftZ, HandleTBar(s)),
                  PosPrim(HandleShiftZ, HandleCrossBar(s))},
     cuts    |-> <<>>,
     fillets |-> << [radius |-> 450, edges |-> AllEdges] >>]

\* C1: the kernel calls of make_tap_handle are always an initial part of
\* the strict order handle (cylinder, T-bar, cross-bar, fillet 4.5, shift),
\* shaft (cylinder, hexagon), union, junction selection and fillet 3.5,
\* socket, bore, bolt hole; each step works on the result of the one
\* before; no subtraction precedes the junction fillet and the junction
\* fillet never precedes the union.
C1_StrictStepOrder ==
    /\ IsPrefix(BuilderCalls, StrictOrder)
    /\ \A i \in DOMAIN BuilderCalls :
          /\ BuilderCalls[i][1] \in {"cut_socket", "cut_bore", "cut_bolt"}
                => \E j \in 1..(i - 1) : BuilderCalls[j] = <<"junction_fillet">>
          /\ BuilderCalls[i] = <<"junction_fillet">>
                => \E j \in 1..(i - 1) : BuilderCalls[j] = <<"combine">>
    /\ Called("handle_shift") => handle_part = ShiftedHandle(spec)
    /\ Called("shaft_hex") => shaft_part.solids = {ShaftCylinder(spec), ShaftHex(spec)}
    /\ Called("combine") =>
          /\ p.solids = handle_part.solids \cup shaft_part.solids
          /\ p.fillets[1] = [radius |-> 450, edges |-> AllEdges]
    /\ Called("junction_fillet") =>
          /\ Len(p.fillets) = 2
          /\ p.fillets[2].radius = 350
    /\ Called("cut_bolt") =>
          p.cuts = <<SocketCutter(spec), BoreCutter(spec), BoltCutter(spec)>>
    /\ Called("return") => result = p

C1_Witness ==
    /\ pc = "returned"
    /\ BuilderCalls = StrictOrder
    /\ Len(result.cuts) = 3

\* C2: once the selection is made, the selected edges are exactly the edges
\* of the combined solid whose centroid has |Z| < 0.2 and
\* (shaft_od/2)^2 - 1 < X^2 + Y^2 < (handle_base_diameter/2)^2 + 1, both
\* strict; and the radius-3.5 fillet is applied to exactly that set.
C2_JunctionEdgesExact ==
    LET rsq(e) == e.X * e.X + e.Y * e.Y
        inband(e) ==
            /\ e.Z > -20 /\ e.Z < 20
            /\ 4 * rsq(e) > spec.shaft_od * spec.shaft_od - 40000
            /\ 4 * rsq(e) < spec.handle_base_diameter * spec.handle_base_diameter + 40000
    IN  /\ Called("select_edges") =>
            \A e \in p_edges : (e \in intersection_edges) <=> inband(e)
        /\ Called("select_edges") => intersection_edges \subseteq p_edges
        /\ Called("junction_fillet") =>
            /\ p.fillets[Len(p.fillets)].radius = 350
            /\ \A e \in CandidateEdges :
                  (e \in p.fillets[Len(p.fillets)].edges) <=> (e \in p_edges /\ inband(e))

\* a fillet applied while an edge on a bound of the band was present and
\* left out, next to one that was selected
C2_Witness ==
    /\ Called("junction_fillet")
    /\ \E e \in p_edges \ intersection_edges :
          \/ 4 * (e.X * e.X + e.Y * e.Y) = spec.shaft_od * spec.shaft_od - 40000
          \/ 4 * (e.X * e.X + e.Y * e.Y)
                = spec.handle_base_diameter * spec.handle_base_diameter + 40000
    /\ intersection_edges # {}

\* C3: when the selection is empty the builder fails with an assertion: no
\* junction fillet and no subtraction has been made, nothing is returned,
\* and in a program run no directory has been created and no file written.
C3_EmptySelectionFailsFirst ==
    (Called("select_edges") /\ intersection_edges = {}) =>
        /\ pc = "raised"
        /\ error = <<"AssertionError">>
        /\ result = NoPart
        /\ parts = <<>>
        /\ p.cuts = <<>>
        /\ Len(p.fillets) = 1
        /\ \A i \in DOMAIN trace :
              trace[i][1] \notin {"junction_fillet", "cut_socket", "cut_bore",
                                  "cut_bolt", "return", "show", "mkdir",
                                  "export_stl", "export_step"}

C3_Witness ==
    /\ caller = "main"
    /\ Called("select_edges")
    /\ intersection_edges = {}
    /\ p_edges # {}
    /\ error = <<"AssertionError">>
    /\ dir = "absent"

\* C4: an export of an entry is always preceded by the type check of that
\* entry, and the entry's value is then a Part, Solid or Compound; when the
\* check fails, the run ends in an assertion failure that names the key and
\* the actual type, and no export call is made for the entry.
C4_TypeCheckBeforeExport ==
    /\ \A i \in DOMAIN trace :
          trace[i][1] \in {"export_stl", "export_step"} =>
             /\ \E j \in 1..(i - 1) : trace[j] = <<"isinstance", "tap_handle_m3">>
             /\ parts[1][2] \in {"Part", "Solid", "Compound"}
    /\ (Called("isinstance") /\ parts[1][2] \notin {"Part", "Solid", "Compound"}) =>
          /\ pc = "raised"
          /\ error = <<"AssertionError", "tap_handle_m3", parts[1][2]>>
          /\ ~Called("export_stl")
          /\ ~Called("export_step")

C4_Witness ==
    /\ pc = "raised"
    /\ error = <<"AssertionError", "tap_handle_m3", "NoneType">>
    /\ dir = "dir"

IsRunCall(entry) ==
    entry[1] \in {"TapHandleSpec", "make_tap_handle", "mkdir", "export_stl", "export_step"}

\* C5: a run that completes has constructed one spec, called the builder
\* once, created (or found) the build directory and then written
\* tap_handle_m3.stl and, after it, tap_handle_m3.step, each once; and the
\* run never fails on a build directory that already exists.
C5_OneSpecOneModelOnePair ==
    /\ pc = "done" =>
          /\ SelectSeq(trace, IsRunCall) =
                << <<"TapHandleSpec">>, <<"make_tap_handle">>, <<"mkdir">>,
                   <<"export_stl", "tap_handle_m3.stl">>,
                   <<"export_step", "tap_handle_m3.step">> >>
          /\ dir = "dir"
          /\ {"tap_handle_m3.stl", "tap_handle_m3.step"} \subseteq files
          /\ spec = TapHandleSpec([tap_diameter |-> 300])
    /\ error = <<"FileExistsError">> => dir = "file"

C5_Witness ==
    /\ pc = "done"
    /\ files = {"tap_handle_m3.stl", "tap_handle_m3.step"}
    /\ result # NoPart
    /\ Len(trace) > 0 /\ trace[Len(trace)] = <<"export_step", "tap_handle_m3.step">>

FootprintBound(s) ==
    Max2(s.handle_t_length, Max2(s.handle_t_length_2, s.handle_base_diameter))

\* C7 as claimed: for positive dimensions the X and Y extents of the
\* returned solid are at most max(handle_t_length, handle_t_length_2,
\* handle_base_diameter).
C7_FootprintWithinBound ==
    (Returned /\ PositiveDimensions(spec)) =>
        /\ XExtentAtMostOf(result, FootprintBound(spec))
        /\ YExtentAtMostOf(result, FootprintBound(spec))

\* C7 amended: the bound holds when handle_t_width and shaft_od do not
\* exceed it; in general both extents are at most the largest of the five
\* handle_t_length, handle_t_length_2, handle_base_diameter, handle_t_width
\* and shaft_od.
C7_FootprintWithinBoundAmended ==
    (Returned /\ PositiveDimensions(spec)) =>
        /\ (spec.handle_t_width <= FootprintBound(spec)
                /\ spec.shaft_od <= FootprintBound(spec)) =>
              /\ XExtentAtMostOf(result, FootprintBound(spec))
              /\ YExtentAtMostOf(result, FootprintBound(spec))
        /\ LET m5 == Max2(FootprintBound(spec), Max2(spec.handle_t_width, spec.shaft_od))
           IN  /\ XExtentAtMostOf(result, m5)
               /\ YExtentAtMostOf(result, m5)

C7_Witness ==
    /\ Returned
    /\ PositiveDimensions(spec)
    /\ spec.handle_t_width <= FootprintBound(spec)
    /\ spec.shaft_od = 250
    /\ spec.handle_base_diameter = 480
    /\ Len(result.cuts) = 3

EachCutReducesVolume(part) ==
    \A i \in DOMAIN part.cuts : VolumeReducedBy(BeforeCut(part, i), part.cuts[i])

\* C8 as claimed: for positive dimensions each of the three subtractions
\* strictly reduces the volume of the solid it is applied to.
C8_EachCutReducesVolume ==
    (Returned /\ PositiveDimensions(spec)) =>
        Len(result.cuts) = 3 /\ EachCutReducesVolume(result)

CutsReachMaterial(s) ==
    /\ s.tap_square_length > 1
    /\ s.tap_round_length > 1
    /\ s.tap_diameter < s.shaft_od
    /\ s.shaft_length - Max2(s.tap_square_length, s.tap_round_length) >= 10

\* C8 amended: each of the three subtractions strictly reduces the volume
\* when tap_square_length and tap_round_length exceed 0.01 (the socket and
\* the bore reach below the hexagon's top face), tap_diameter < shaft_od
\* (the shaft is wider than the bore) and the socket and the bore end at or
\* above Z = 0.1, the top of the handle.
C8_EachCutReducesVolumeAmended ==
    (Returned /\ PositiveDimensions(spec) /\ CutsReachMaterial(spec)) =>
        Len(result.cuts) = 3 /\ EachCutReducesVolume(result)

C8_Witness ==
    /\ Returned
    /\ PositiveDimensions(spec)
    /\ CutsReachMaterial(spec)
    /\ spec.tap_diameter = 1000
    /\ spec.shaft_length = 1500
    /\ Len(result.cuts) = 3

\* C9 as claimed: the bolt-hole cylinder starts exactly 0.1 below the
\* bottom face of the handle as positioned in the combined solid, is 50
\* long, and spans the handle's Z range.
C9_BoltHoleStartsBelowHandle ==
    Called("cut_bolt") =>
        LET bolt == p.cuts[Len(p.cuts)]
        IN  /\ bolt.z0 = ZMin(handle_part) - 10
            /\ bolt.z1 - bolt.z0 = 5000
            /\ bolt.z0 <= ZMin(handle_part)
            /\ bolt.z1 >= ZMax(handle_part)

\* C9 amended: the bolt-hole cylinder starts exactly 0.2 below the bottom
\* face of the handle as positioned in the combined solid (0.1 below where
\* that face was before the +0.1 shift), is 50 long, starts below the
\* handle, and reaches the handle's top when handle_t_height <= 49.8.
C9_BoltHoleStartsBelowHandleAmended ==
    Called("cut_bolt") =>
        LET bolt == p.cuts[Len(p.cuts)]
        IN  /\ bolt.z0 = ZMin(handle_part) - 20
            /\ bolt.z0 = (ZMin(handle_part) - 10) - 10
            /\ bolt.z1 - bolt.z0 = 5000
            /\ bolt.z0 < ZMin(handle_part)
            /\ spec.handle_t_height <= 4980 => bolt.z1 >= ZMax(handle_part)

C9_Witness ==
    /\ Called("cut_bolt")
    /\ spec.handle_t_height = 1000
    /\ p.cuts[Len(p.cuts)].z0 = -1010
    /\ ZMin(handle_part) = -990

\* C10: the top faces of the socket and of the bore are at the Z of the
\* highest point of the shaft, so the socket is tap_square_length deep and
\* the bore tap_round_length deep in the shaft.
C10_CuttersAnchoredAtShaftTop ==
    Called("cut_bore") =>
        LET socket == p.cuts[1]
            bore   == p.cuts[2]
        IN  /\ socket.z1 = ZMax(shaft_part)
            /\ bore.z1 = ZMax(shaft_part)
            /\ ZMax(shaft_part) - socket.z0 = spec.tap_square_length
            /\ ZMax(shaft_part) - bore.z0 = spec.tap_round_length

====
